---- MODULE Spec2Model ----
(***************************************************************************)
(* Model of the green-team rotation engine (services/greenScheduler.ts):   *)
(* generateGreenSchedule and its helper assignBestCandidates, as a state   *)
(* machine that processes the five rotations of ROTATIONS_META in order.   *)
(* Employees B1..Bn are the integers 1..n; a "HH:mm" string is the pair    *)
(* <<h, m>>; a station is the string of the GreenStation enum member.      *)
(* The module also models the handlers of App.tsx that edit the lists the  *)
(* engine is called with (drag and drop, team swaps, locks); there the     *)
(* blue slots A1..Am are the integers -1..-m.  The blue generator          *)
(* (generateSchedule) is modelled with its times in minutes after midnight. *)
(***************************************************************************)
EXTENDS Integers, Sequences, FiniteSets, TLC

(***************************************************************************)
(* Bounds of the exploration.                                              *)
(***************************************************************************)
\* Largest roster of a run whose rule lists are all empty.
MaxEmployees == 4
\* Largest roster of a run in which everybody leaves after the first rotation.
MaxShortDayEmployees == 5
\* Largest roster of a run that has side tasks, exceptions or pins.
MaxRuleEmployees == 3
\* Rule entries name employees B1..B<MaxRuleId> (in the roster or not).
MaxRuleId == 2
\* Rule entries name rotations 1..MaxRuleRotation.
MaxRuleRotation == 2
\* Total number of entries over the three rule lists of one run.
MaxRules == 2
\* Math.random() returns one of the values k / RandomLevels, k < RandomLevels.
RandomLevels == 2

(***************************************************************************)
(* Program constants.                                                      *)
(***************************************************************************)
TICKET == "Ticket"
GREETER == "Greeter"
PLANETARIUM == "Planetarium"
MUSEUM == "Museum"
SIDE_TASK == "SideTask"
OFF_SHIFT == "OffShift"

GreenStation == {TICKET, GREETER, PLANETARIUM, MUSEUM, SIDE_TASK, OFF_SHIFT}
WorkStations == {TICKET, GREETER, PLANETARIUM, MUSEUM}

ROTATIONS_META ==
  << [id |-> 1, start |-> <<9, 0>>,   end |-> <<10, 30>>],
     [id |-> 2, start |-> <<10, 30>>, end |-> <<12, 0>>],
     [id |-> 3, start |-> <<12, 0>>,  end |-> <<14, 0>>],
     [id |-> 4, start |-> <<14, 0>>,  end |-> <<15, 30>>],
     [id |-> 5, start |-> <<15, 30>>, end |-> <<17, 0>>] >>

\* Scoring constants of assignBestCandidates.
NuclearPenalty == 5000000
MajorPenalty == 200000
MaximumPenalty == 10000000
MuseumBonus == 1000000
VirginPenalty == 2000
VarietyWeight == 1000
RandomScale == 10

\* Targets of the four fixed calls of assignBestCandidates.
TicketFirst == 1
GreeterTarget == 1
PlanetariumTarget == 1
TicketSecond == 2

(***************************************************************************)
(* Helpers.                                                                *)
(***************************************************************************)
getMinutes(time) == time[1] * 60 + time[2]

Range(s) == {s[k] : k \in DOMAIN s}

includes(s, x) == x \in Range(s)

\* Array.prototype.filter(id => id # x)
without(s, x) == SelectSeq(s, LAMBDA y : y # x)

\* Array.prototype.find: index of the first element satisfying the test, 0 if none.
findIndex(s, Test(_)) ==
  IF \E k \in DOMAIN s : Test(s[k])
    THEN CHOOSE k \in DOMAIN s : Test(s[k]) /\ \A j \in 1..(k - 1) : ~Test(s[j])
    ELSE 0

\* Number of entries of s equal to x (past.filter(s => s === station).length).
RECURSIVE timesDone(_, _)
timesDone(s, x) ==
  IF s = <<>> THEN 0
  ELSE (IF Head(s) = x THEN 1 ELSE 0) + timesDone(Tail(s), x)

\* employees = Array.from({length: numEmployees}, (_, i) => `B${i + 1}`)
employeesOf(n) == [k \in 1..n |-> k]

emptyAssignments == [s \in GreenStation |-> <<>>]

(***************************************************************************)
(* State.                                                                  *)
(***************************************************************************)
VARIABLES
  numEmployees,        \* argument
  sideTasks,           \* argument: sequence of [rotationId, employeeId]
  shiftExceptions,     \* argument: sequence of [id, employeeId, startTime, endTime]
  forcedAssignments,   \* argument: sequence of [rotationId, station, employeeId]
  pc,                  \* position in generateGreenSchedule
  rot,                 \* index in ROTATIONS_META of the rotation being processed
  history,             \* employeeId -> stations done so far
  notifications,       \* the log
  rotations,           \* the output rotations pushed so far
  assignments,         \* buckets of the rotation being processed
  availableEmployees,  \* availablePool, then its shuffled copy
  call,                \* the running assignBestCandidates call
  sel,                 \* the last scored selection (station, pool before, best)
  blueCount,           \* App: config.numEmployees, the number of blue slots
  employeeNames,       \* App: blue slot id -> name ("" when the key is absent)
  greenEmployeeNames,  \* App: green slot id -> name ("" when the key is absent)
  teamLocks,           \* App: [blue, green], slot id -> locked
  gesture,             \* App: the last handler run, its arguments, the state before
  blue                 \* the blue generator: its arguments, locals and position

vars == <<numEmployees, sideTasks, shiftExceptions, forcedAssignments, pc, rot,
          history, notifications, rotations, assignments, availableEmployees,
          call, sel, blueCount, employeeNames, greenEmployeeNames, teamLocks,
          gesture, blue>>

\* The state of App.tsx that the engine does not read.
app == <<blueCount, employeeNames, greenEmployeeNames, teamLocks, gesture>>

\* The state of a run of the engine.
engine == <<pc, rot, history, notifications, rotations, assignments,
            availableEmployees, call, sel>>

inputs == <<numEmployees, sideTasks, shiftExceptions, forcedAssignments>>

NoCall == [idx |-> 0, station |-> "", targetCount |-> 0, countNeeded |-> 0, i |-> 0]
NoSel == [station |-> "", pool |-> <<>>, best |-> 0]
NoGesture == [op |-> "", args |-> <<>>, before |-> <<>>, count |-> 0]
NoBlue == [pc |-> "idle"]

(***************************************************************************)
(* Notifications: id and message are the tuples of the values the template *)
(* strings interpolate; rotationId 0 stands for an absent rotationId.      *)
(***************************************************************************)
Notification(id, type, message, rotationId) ==
  [id |-> id, type |-> type, message |-> message, rotationId |-> rotationId]

\* shiftExceptions.forEach(ex => notifications.push({id: `shift-${ex.id}`, ...}))
exceptionInfos(exs) ==
  [k \in DOMAIN exs |->
     Notification(<<"shift", exs[k].id>>, "info",
                  <<exs[k].employeeId, exs[k].startTime, exs[k].endTime>>, 0)]

(***************************************************************************)
(* 1. Categorize employees for a rotation.                                 *)
(***************************************************************************)
\* The shift-exception test with strict comparisons: a window that touches
\* the rotation boundary counts as overlapping.
isPresentTouching(empId, rotMeta, exs) ==
  LET k == findIndex(exs, LAMBDA e : e.employeeId = empId)
  IN IF k = 0 THEN TRUE
     ELSE ~(\/ getMinutes(exs[k].endTime) < getMinutes(rotMeta.start)
            \/ getMinutes(exs[k].startTime) > getMinutes(rotMeta.end))

\* The shift-exception test made on the last exception naming the employee.
isPresentLastMatch(empId, rotMeta, exs) ==
  LET ks == {j \in DOMAIN exs : exs[j].employeeId = empId}
  IN IF ks = {} THEN TRUE
     ELSE LET k == CHOOSE j \in ks : \A i \in ks : i <= j
          IN ~(\/ getMinutes(exs[k].endTime) <= getMinutes(rotMeta.start)
               \/ getMinutes(exs[k].startTime) >= getMinutes(rotMeta.end))

\* The shift-exception test inverted: present where the window does not
\* overlap the rotation.
isPresentOutsideWindow(empId, rotMeta, exs) ==
  LET k == findIndex(exs, LAMBDA e : e.employeeId = empId)
  IN IF k = 0 THEN TRUE
     ELSE (\/ getMinutes(exs[k].endTime) <= getMinutes(rotMeta.start)
           \/ getMinutes(exs[k].startTime) >= getMinutes(rotMeta.end))

\* The shift-exception test of one employee: present unless the first
\* exception naming them does not overlap the rotation window.
isPresent(empId, rotMeta, exs) ==
  LET k == findIndex(exs, LAMBDA e : e.employeeId = empId)
  IN IF k = 0 THEN TRUE
     ELSE ~(\/ getMinutes(exs[k].endTime) <= getMinutes(rotMeta.start)
            \/ getMinutes(exs[k].startTime) >= getMinutes(rotMeta.end))

hasSideTask(empId, rotMeta, tasks) ==
  \E k \in DOMAIN tasks :
     tasks[k].rotationId = rotMeta.id /\ tasks[k].employeeId = empId

\* The body of employees.forEach with the side-task notification assigned to
\* the log instead of pushed.
categorizeOneOverwritesLog(empId, rotMeta, tasks, exs, st) ==
  IF ~isPresent(empId, rotMeta, exs)
    THEN [st EXCEPT !.assignments[OFF_SHIFT] = Append(@, empId)]
  ELSE IF hasSideTask(empId, rotMeta, tasks)
    THEN [st EXCEPT !.assignments[SIDE_TASK] = Append(@, empId),
                    !.history[empId] = Append(@, SIDE_TASK),
                    !.notifications =
                       << Notification(<<"side", rotMeta.id, empId>>, "info",
                                       <<empId, rotMeta.id>>, rotMeta.id) >>]
  ELSE [st EXCEPT !.pool = Append(@, empId)]

\* The body of employees.forEach for one employee, on the record
\* st = [assignments, pool, history, notifications].
categorizeOne(empId, rotMeta, tasks, exs, st) ==
  IF ~isPresent(empId, rotMeta, exs)
    THEN [st EXCEPT !.assignments[OFF_SHIFT] = Append(@, empId)]
  ELSE IF hasSideTask(empId, rotMeta, tasks)
    THEN [st EXCEPT !.assignments[SIDE_TASK] = Append(@, empId),
                    !.history[empId] = Append(@, SIDE_TASK),
                    !.notifications =
                       Append(@, Notification(<<"side", rotMeta.id, empId>>, "info",
                                              <<empId, rotMeta.id>>, rotMeta.id))]
  ELSE [st EXCEPT !.pool = Append(@, empId)]

RECURSIVE categorizeFrom(_, _, _, _, _, _)
categorizeFrom(k, n, rotMeta, tasks, exs, st) ==
  IF k > n THEN st
  ELSE categorizeFrom(k + 1, n, rotMeta, tasks, exs,
                      categorizeOne(employeesOf(n)[k], rotMeta, tasks, exs, st))

(***************************************************************************)
(* 2. Forced assignments of a rotation.                                    *)
(***************************************************************************)
rotationForces(forces, rotMeta) ==
  SelectSeq(forces, LAMBDA f : f.rotationId = rotMeta.id)

\* The two manual-override warnings of one forced entry (neither carries a
\* rotationId).
forceWarnings(force, rotMeta, past) ==
  LET lastStation == IF Len(past) > 0 THEN past[Len(past)] ELSE "null"
      repeat == IF lastStation = force.station
                  THEN << Notification(<<"warn-force-repeat", rotMeta.id, force.employeeId>>,
                                       "warning",
                                       <<force.employeeId, force.station, rotMeta.id>>, 0) >>
                  ELSE <<>>
      arora == IF force.station = PLANETARIUM /\ includes(past, PLANETARIUM)
                 THEN << Notification(<<"warn-force-arora", rotMeta.id, force.employeeId>>,
                                      "warning", <<force.employeeId>>, 0) >>
                 ELSE <<>>
  IN repeat \o arora

\* The body of rotationForces.forEach for one entry whose employee has a
\* history (history[force.employeeId] is defined).
applyForce(force, rotMeta, st) ==
  LET e == force.employeeId
      warned == [st EXCEPT !.notifications =
                              @ \o forceWarnings(force, rotMeta, st.history[e])]
      removed == [warned EXCEPT !.assignments[OFF_SHIFT] = without(@, e),
                                !.assignments[SIDE_TASK] = without(@, e),
                                !.pool = without(@, e)]
  IN IF ~includes(removed.assignments[force.station], e)
       THEN [removed EXCEPT !.assignments[force.station] = Append(@, e),
                            !.history[e] = Append(@, force.station)]
       ELSE removed

\* rotationForces.forEach: reading past.length of an employee that is not a
\* key of history throws a TypeError, which ends the run.
RECURSIVE applyForces(_, _, _)
applyForces(forces, rotMeta, st) ==
  IF forces = <<>> THEN st
  ELSE IF Head(forces).employeeId \notin DOMAIN st.history
    THEN [st EXCEPT !.threw = TRUE]
  ELSE applyForces(Tail(forces), rotMeta, applyForce(Head(forces), rotMeta, st))

(***************************************************************************)
(* Shuffle (Fisher-Yates).  draws[i] is the level of the Math.random()     *)
(* value drawn for position i (1-based), so j = floor(random * i) + 1.     *)
(***************************************************************************)
swap(arr, i, j) == [arr EXCEPT ![i] = arr[j], ![j] = arr[i]]

RECURSIVE shuffleFrom(_, _, _)
shuffleFrom(arr, i, draws) ==
  IF i <= 1 THEN arr
  ELSE shuffleFrom(swap(arr, i, (draws[i] * i) \div RandomLevels + 1), i - 1, draws)

shuffle(array, draws) == shuffleFrom(array, Len(array), draws)

(***************************************************************************)
(* assignBestCandidates.                                                   *)
(***************************************************************************)
\* Math.random() * 10 for the level k drawn (integer part).
\* The random term drawn on the scale of the variety weight.
randomFactorOnVarietyScale(k) == (k * RandomScale * VarietyWeight) \div RandomLevels

randomFactor(k) == (k * RandomScale) \div RandomLevels

lastStationOf(past) == IF Len(past) > 0 THEN past[Len(past)] ELSE "null"

secondLastStationOf(past) == IF Len(past) > 1 THEN past[Len(past) - 1] ELSE "null"

\* Rule 1, with the comparison made against the entry before the last one.
consecutiveRepeatWrongEntry(past, station) ==
  IF secondLastStationOf(past) = station THEN NuclearPenalty ELSE 0

\* Rule 1: no consecutive repeat.
consecutiveRepeat(past, station) ==
  IF lastStationOf(past) = station THEN NuclearPenalty ELSE 0

\* Rule 2, with the comparison made against the last entry.
gapOfTwoComparesLast(past, station) ==
  IF lastStationOf(past) = station THEN MajorPenalty ELSE 0

\* Rule 2: gap of two.
gapOfTwo(past, station) ==
  IF secondLastStationOf(past) = station THEN MajorPenalty ELSE 0

\* Rule 3, with the penalty subtracted instead of added.
planetariumMaxOnceSubtracted(past, station) ==
  IF station = PLANETARIUM /\ includes(past, PLANETARIUM) THEN 0 - MaximumPenalty ELSE 0

\* Rule 3, with the test on the history negated.
planetariumMaxOnceNegated(past, station) ==
  IF station = PLANETARIUM /\ ~includes(past, PLANETARIUM) THEN MaximumPenalty ELSE 0

\* Rule 3: Planetarium at most once.
planetariumMaxOnce(past, station) ==
  IF station = PLANETARIUM /\ includes(past, PLANETARIUM) THEN MaximumPenalty ELSE 0

\* Heuristic 1, with the bonus added to the score instead of subtracted.
escapeMuseumAdded(past, station) ==
  IF station # MUSEUM /\ lastStationOf(past) = MUSEUM THEN 0 - MuseumBonus ELSE 0

\* Heuristic 1, with the bonus given for the station before the last one.
escapeMuseumSecondLast(past, station) ==
  IF station # MUSEUM /\ secondLastStationOf(past) = MUSEUM THEN MuseumBonus ELSE 0

\* Heuristic 1: escape Museum (a bonus, subtracted).
escapeMuseum(past, station) ==
  IF station # MUSEUM /\ lastStationOf(past) = MUSEUM THEN MuseumBonus ELSE 0

\* Heuristic 2: save the people who have not done Planetarium yet.
savePlanetarium(past, station) ==
  IF station # PLANETARIUM /\ ~includes(past, PLANETARIUM) THEN VirginPenalty ELSE 0

\* Soft rule: variety.
variety(past, station) == timesDone(past, station) * VarietyWeight

\* The score of one candidate for a station (lower is better).
score(empId, station, hist, k) ==
    consecutiveRepeat(hist[empId], station)
  + gapOfTwo(hist[empId], station)
  + planetariumMaxOnce(hist[empId], station)
  - escapeMuseum(hist[empId], station)
  + savePlanetarium(hist[empId], station)
  + variety(hist[empId], station)
  + randomFactor(k)

\* The sort made in descending order: the first candidate of maximal score.
bestIndexDescending(scores) ==
  CHOOSE k \in DOMAIN scores :
     /\ \A j \in DOMAIN scores : scores[k] >= scores[j]
     /\ \A j \in 1..(k - 1) : scores[j] < scores[k]

\* scoredCandidates.sort((a, b) => a.score - b.score)[0]: the sort is stable,
\* so the first candidate in pool order among those of minimal score.
bestIndex(scores) ==
  CHOOSE k \in DOMAIN scores :
     /\ \A j \in DOMAIN scores : scores[k] <= scores[j]
     /\ \A j \in 1..(k - 1) : scores[j] > scores[k]

\* Validation logging with the second Planetarium reported as a warning.
validationLogAllWarnings(best, station, rotMeta, past) ==
  LET lastStation == IF Len(past) > 0 THEN past[Len(past)] ELSE "null"
      repeat == IF lastStation = station /\ station # MUSEUM
                  THEN << Notification(<<"warn-repeat", rotMeta.id, best>>, "warning",
                                       <<best, station, rotMeta.id>>, rotMeta.id) >>
                  ELSE <<>>
      arora == IF station = PLANETARIUM /\ includes(past, PLANETARIUM)
                 THEN << Notification(<<"warn-limit-arora", rotMeta.id, best>>, "warning",
                                      <<best>>, rotMeta.id) >>
                 ELSE <<>>
  IN repeat \o arora

\* Validation logging with the Museum test of the repeat warning inverted.
validationLogOnlyMuseum(best, station, rotMeta, past) ==
  LET lastStation == IF Len(past) > 0 THEN past[Len(past)] ELSE "null"
      repeat == IF lastStation = station /\ station = MUSEUM
                  THEN << Notification(<<"warn-repeat", rotMeta.id, best>>, "warning",
                                       <<best, station, rotMeta.id>>, rotMeta.id) >>
                  ELSE <<>>
      arora == IF station = PLANETARIUM /\ includes(past, PLANETARIUM)
                 THEN << Notification(<<"warn-limit-arora", rotMeta.id, best>>, "critical",
                                      <<best>>, rotMeta.id) >>
                 ELSE <<>>
  IN repeat \o arora

\* Validation logging after a selection.
validationLog(best, station, rotMeta, past) ==
  LET lastStation == IF Len(past) > 0 THEN past[Len(past)] ELSE "null"
      repeat == IF lastStation = station /\ station # MUSEUM
                  THEN << Notification(<<"warn-repeat", rotMeta.id, best>>, "warning",
                                       <<best, station, rotMeta.id>>, rotMeta.id) >>
                  ELSE <<>>
      arora == IF station = PLANETARIUM /\ includes(past, PLANETARIUM)
                 THEN << Notification(<<"warn-limit-arora", rotMeta.id, best>>, "critical",
                                      <<best>>, rotMeta.id) >>
                 ELSE <<>>
  IN repeat \o arora

\* The shortage notification, with the station test inverted.
shortageLogOnlyMuseum(c, rotMeta, asg) ==
  IF c.targetCount > 0 /\ c.station = MUSEUM
    THEN << Notification(<<"missing", rotMeta.id, c.station, c.i>>, "critical",
                         <<c.station, rotMeta.id, c.targetCount, Len(asg[c.station])>>,
                         rotMeta.id) >>
    ELSE <<>>

\* The shortage notification of a call that finds the pool empty.
shortageLog(c, rotMeta, asg) ==
  IF c.targetCount > 0 /\ c.station # MUSEUM
    THEN << Notification(<<"missing", rotMeta.id, c.station, c.i>>, "critical",
                         <<c.station, rotMeta.id, c.targetCount, Len(asg[c.station])>>,
                         rotMeta.id) >>
    ELSE <<>>

(***************************************************************************)
(* The priorities: the five calls of assignBestCandidates of a rotation.   *)
(***************************************************************************)
NumCalls == 5

\* The priorities with Planetarium filled before Greeter.
callStationPlanetariumFirst(idx) ==
  CASE idx = 1 -> TICKET
    [] idx = 2 -> PLANETARIUM
    [] idx = 3 -> GREETER
    [] idx = 4 -> TICKET
    [] OTHER -> MUSEUM

callStation(idx) ==
  CASE idx = 1 -> TICKET
    [] idx = 2 -> GREETER
    [] idx = 3 -> PLANETARIUM
    [] idx = 4 -> TICKET
    [] OTHER -> MUSEUM

\* The priorities with both Ticket places filled by the first call.
callTargetTicketPairFirst(idx, asg, pool) ==
  CASE idx = 1 -> TicketSecond
    [] idx = 2 -> GreeterTarget
    [] idx = 3 -> PlanetariumTarget
    [] idx = 4 -> TicketSecond
    [] OTHER -> Len(asg[MUSEUM]) + Len(pool)

callTarget(idx, asg, pool) ==
  CASE idx = 1 -> TicketFirst
    [] idx = 2 -> GreeterTarget
    [] idx = 3 -> PlanetariumTarget
    [] idx = 4 -> TicketSecond
    [] OTHER -> Len(asg[MUSEUM]) + Len(pool)

max(a, b) == IF a >= b THEN a ELSE b

\* Entry of call idx with the members already in the station not counted.
enterCallIgnoresMembers(idx, asg, pool) ==
  [idx |-> idx,
   station |-> callStation(idx),
   targetCount |-> callTarget(idx, asg, pool),
   countNeeded |-> callTarget(idx, asg, pool),
   i |-> 0]

\* Entry of call idx: countNeeded is computed once, before the loop.
enterCall(idx, asg, pool) ==
  [idx |-> idx,
   station |-> callStation(idx),
   targetCount |-> callTarget(idx, asg, pool),
   countNeeded |-> max(0, callTarget(idx, asg, pool) - Len(asg[callStation(idx)])),
   i |-> 0]

(***************************************************************************)
(* Inputs.                                                                 *)
(***************************************************************************)
ExceptionStarts == {<<9, 0>>, <<10, 30>>, <<11, 0>>}
ExceptionEnds == {<<10, 30>>, <<17, 0>>}

SideTaskRules == [rotationId : 1..MaxRuleRotation, employeeId : 1..MaxRuleId]
ShiftWindows == [employeeId : 1..MaxRuleId, startTime : ExceptionStarts,
                 endTime : ExceptionEnds]
ForcedRules == [rotationId : 1..MaxRuleRotation, station : GreenStation,
                employeeId : 1..MaxRuleId]

\* Exception ids are distinct (Date.now() strings): the position in the list.
withIds(ws) ==
  [k \in DOMAIN ws |-> [id |-> k, employeeId |-> ws[k].employeeId,
                        startTime |-> ws[k].startTime, endTime |-> ws[k].endTime]]

\* A day without rules, a day with at most MaxRules rule entries, a day on
\* which the whole roster works the first rotation only, and a day on which
\* the whole roster works the first two rotations and every place of Ticket,
\* Greeter and Planetarium is pinned in the second.
plainDay ==
  /\ numEmployees \in 0..MaxEmployees
  /\ sideTasks = <<>> /\ shiftExceptions = <<>> /\ forcedAssignments = <<>>

ruledDay ==
  \E nt \in 0..MaxRules : \E ne \in 0..(MaxRules - nt) : \E nf \in 0..(MaxRules - nt - ne) :
     /\ nt + ne + nf > 0
     /\ numEmployees \in 0..MaxRuleEmployees
     /\ sideTasks \in [1..nt -> SideTaskRules]
     /\ \E ws \in [1..ne -> ShiftWindows] : shiftExceptions = withIds(ws)
     /\ forcedAssignments \in [1..nf -> ForcedRules]

shortDay ==
  /\ numEmployees \in 1..MaxShortDayEmployees
  /\ sideTasks = <<>> /\ forcedAssignments = <<>>
  /\ shiftExceptions =
       withIds([k \in 1..numEmployees |->
                  [employeeId |-> k, startTime |-> ROTATIONS_META[1].start,
                   endTime |-> ROTATIONS_META[1].end]])

pinnedDay ==
  /\ numEmployees \in 5..MaxShortDayEmployees
  /\ sideTasks = <<>>
  /\ shiftExceptions =
       withIds([k \in 1..numEmployees |->
                  [employeeId |-> k, startTime |-> ROTATIONS_META[1].start,
                   endTime |-> ROTATIONS_META[2].end]])
  /\ forcedAssignments =
       << [rotationId |-> 2, station |-> TICKET, employeeId |-> 1],
          [rotationId |-> 2, station |-> TICKET, employeeId |-> 2],
          [rotationId |-> 2, station |-> GREETER, employeeId |-> 3],
          [rotationId |-> 2, station |-> PLANETARIUM, employeeId |-> 4] >>

Init ==
  /\ plainDay \/ ruledDay \/ shortDay \/ pinnedDay
  /\ pc = "start"
  /\ rot = 1
  /\ history = [e \in 1..numEmployees |-> <<>>]
  /\ notifications = <<>>
  /\ rotations = <<>>
  /\ assignments = emptyAssignments
  /\ availableEmployees = <<>>
  /\ call = NoCall
  /\ sel = NoSel
  /\ blueCount = 0
  /\ employeeNames = <<>>
  /\ greenEmployeeNames = <<>>
  /\ teamLocks = [blue |-> <<>>, green |-> <<>>]
  /\ gesture = NoGesture
  /\ blue = NoBlue

(***************************************************************************)
(* Actions.                                                                *)
(***************************************************************************)
\* Lines 43-49: one info notification per shift exception.
PreProcess ==
  /\ pc = "start"
  /\ notifications' = notifications \o exceptionInfos(shiftExceptions)
  /\ pc' = "categorize"
  /\ UNCHANGED <<inputs, app, blue, rot, history, rotations, assignments,
                 availableEmployees, call, sel>>

\* Lines 55-103: fresh buckets, then employees.forEach.
Categorize ==
  /\ pc = "categorize"
  /\ LET st == categorizeFrom(1, numEmployees, ROTATIONS_META[rot], sideTasks,
                              shiftExceptions,
                              [assignments |-> emptyAssignments, pool |-> <<>>,
                               history |-> history, notifications |-> notifications])
     IN /\ assignments' = st.assignments
        /\ availableEmployees' = st.pool
        /\ history' = st.history
        /\ notifications' = st.notifications
  /\ pc' = "forces"
  /\ sel' = NoSel
  /\ UNCHANGED <<inputs, app, blue, rot, rotations, call>>

\* Lines 107-146: rotationForces.forEach; a TypeError ends the run.
ProcessForced ==
  /\ pc = "forces"
  /\ LET st == applyForces(rotationForces(forcedAssignments, ROTATIONS_META[rot]),
                           ROTATIONS_META[rot],
                           [assignments |-> assignments, pool |-> availableEmployees,
                            history |-> history, notifications |-> notifications,
                            threw |-> FALSE])
     IN /\ assignments' = st.assignments
        /\ availableEmployees' = st.pool
        /\ history' = st.history
        /\ notifications' = st.notifications
        /\ pc' = IF st.threw THEN "threw" ELSE "shuffle"
  /\ UNCHANGED <<inputs, app, blue, rot, rotations, call, sel>>

\* The priorities from the loop head of call c up to the next iteration that
\* scores candidates, or to the end of the priorities: a loop that is over
\* returns, a loop that finds the pool empty logs the shortage and returns, and
\* the next call is entered (lines 157-171 and 258-271).
RECURSIVE resume(_, _, _, _, _)
resume(c, asg, pool, rotMeta, log) ==
  IF c.i < c.countNeeded /\ pool # <<>>
    THEN [call |-> c, log |-> log, finished |-> FALSE]
  ELSE LET log2 == IF c.i < c.countNeeded
                     THEN log \o shortageLog(c, rotMeta, asg)
                     ELSE log
       IN IF c.idx = NumCalls
            THEN [call |-> NoCall, log |-> log2, finished |-> TRUE]
            ELSE resume(enterCall(c.idx + 1, asg, pool), asg, pool, rotMeta, log2)

\* The rotation pushed at the head of the output.
proceedPushesInFront(r, asg) ==
  /\ notifications' = notifications \o r.log
  /\ call' = r.call
  /\ IF r.finished
       THEN /\ rotations' = <<[id |-> ROTATIONS_META[rot].id,
                               timeRange |-> <<ROTATIONS_META[rot].start,
                                               ROTATIONS_META[rot].end>>,
                               assignments |-> asg]>> \o rotations
            /\ IF rot < Len(ROTATIONS_META)
                 THEN rot' = rot + 1 /\ pc' = "categorize"
                 ELSE rot' = rot /\ pc' = "done"
       ELSE /\ pc' = "assign"
            /\ UNCHANGED <<rot, rotations>>

\* The effect of the priorities reaching r on the log, the output and the
\* position: at their end the rotation is pushed (lines 273-277) and the
\* next rotation, if any, starts.
proceed(r, asg) ==
  /\ notifications' = notifications \o r.log
  /\ call' = r.call
  /\ IF r.finished
       THEN /\ rotations' = Append(rotations,
                               [id |-> ROTATIONS_META[rot].id,
                                timeRange |-> <<ROTATIONS_META[rot].start,
                                                ROTATIONS_META[rot].end>>,
                                assignments |-> asg])
            /\ IF rot < Len(ROTATIONS_META)
                 THEN rot' = rot + 1 /\ pc' = "categorize"
                 ELSE rot' = rot /\ pc' = "done"
       ELSE /\ pc' = "assign"
            /\ UNCHANGED <<rot, rotations>>

\* Line 149, then the priorities up to the first scoring iteration.
Shuffle ==
  /\ pc = "shuffle"
  /\ \E draws \in [1..Len(availableEmployees) -> 0..(RandomLevels - 1)] :
       /\ availableEmployees' = shuffle(availableEmployees, draws)
       /\ proceed(resume(enterCall(1, assignments, availableEmployees'), assignments,
                         availableEmployees', ROTATIONS_META[rot], <<>>),
                  assignments)
  /\ UNCHANGED <<inputs, app, blue, history, assignments, sel>>

\* Lines 173-254: one iteration of the loop that scores and places a
\* candidate, then the priorities up to the next such iteration.
SelectBest ==
  /\ pc = "assign"
  /\ \E levels \in [DOMAIN availableEmployees -> 0..(RandomLevels - 1)] :
       LET scores == [k \in DOMAIN availableEmployees |->
                        score(availableEmployees[k], call.station, history, levels[k])]
           best == availableEmployees[bestIndex(scores)]
       IN /\ assignments' = [assignments EXCEPT ![call.station] = Append(@, best)]
          /\ history' = [history EXCEPT ![best] = Append(@, call.station)]
          /\ availableEmployees' = without(availableEmployees, best)
          /\ sel' = [station |-> call.station, pool |-> availableEmployees, best |-> best]
          /\ proceed(resume([call EXCEPT !.i = @ + 1], assignments', availableEmployees',
                            ROTATIONS_META[rot],
                            validationLog(best, call.station, ROTATIONS_META[rot],
                                          history[best])),
                     assignments')
  /\ UNCHANGED <<inputs, app, blue>>

Next ==
  \/ PreProcess
  \/ Categorize
  \/ ProcessForced
  \/ Shuffle
  \/ SelectBest

Spec == Init /\ [][Next]_vars

\* A day on which the first person has one shift exception, with its start
\* and its end on or between the rotation boundaries, and nobody has a side
\* task or a forced assignment.
MaxWindowEmployees == 2
WindowTimes == {<<9, 0>>, <<10, 30>>, <<11, 0>>, <<12, 0>>, <<14, 0>>, <<15, 0>>,
                <<15, 30>>, <<17, 0>>}

windowDay ==
  /\ numEmployees \in 1..MaxWindowEmployees
  /\ sideTasks = <<>>
  /\ forcedAssignments = <<>>
  /\ \E startTime \in WindowTimes, endTime \in WindowTimes :
        shiftExceptions = withIds(<<[employeeId |-> 1, startTime |-> startTime,
                                     endTime |-> endTime]>>)

InitWindows ==
  /\ windowDay
  /\ pc = "start"
  /\ rot = 1
  /\ history = [e \in 1..numEmployees |-> <<>>]
  /\ notifications = <<>>
  /\ rotations = <<>>
  /\ assignments = emptyAssignments
  /\ availableEmployees = <<>>
  /\ call = NoCall
  /\ sel = NoSel
  /\ blueCount = 0
  /\ employeeNames = <<>>
  /\ greenEmployeeNames = <<>>
  /\ teamLocks = [blue |-> <<>>, green |-> <<>>]
  /\ gesture = NoGesture
  /\ blue = NoBlue

SpecWindows == InitWindows /\ [][Next]_vars

(***************************************************************************)
(* App.tsx: the handlers of the green view that edit the rule lists and    *)
(* the names.  A handler is an operator on the state it reads and an       *)
(* action that applies it; gesture keeps the handler, its arguments and    *)
(* the lists and names as they were before it ran.                         *)
(***************************************************************************)

\* Bounds of the exploration of the handlers.
MaxSlots == 2
MaxPins == 3
MaxGestures == 3

\* `A${i + 1}` and `B${i + 1}`: the ids of the blue and of the green slots.
blueEmployeeIds == [i \in 1..blueCount |-> 0 - i]
greenEmployeeIds == [i \in 1..numEmployees |-> i]

\* The drop zones explored: one per rotation and station.
DropRotations == 1..MaxRuleRotation
DropStations == {TICKET, GREETER}

\* The lists and names the swap handlers write.
snapshot ==
  [forcedAssignments |-> forcedAssignments, sideTasks |-> sideTasks,
   shiftExceptions |-> shiftExceptions, employeeNames |-> employeeNames,
   greenEmployeeNames |-> greenEmployeeNames]

handleDropKeepsOldPin(prev, employeeId, rotationId, targetRotationId, targetStation) ==
  IF rotationId = targetRotationId
  THEN Append(prev, [rotationId |-> rotationId, station |-> targetStation,
                     employeeId |-> employeeId])
  ELSE prev

handleDrop(prev, employeeId, rotationId, targetRotationId, targetStation) ==
  IF rotationId = targetRotationId
  THEN LET clean == SelectSeq(prev, LAMBDA f :
                      ~(f.rotationId = rotationId /\ f.employeeId = employeeId))
       IN  Append(clean, [rotationId |-> rotationId, station |-> targetStation,
                          employeeId |-> employeeId])
  ELSE prev

toggleForceAlwaysAdds(prev, rotationId, station, employeeId) ==
  Append(prev, [rotationId |-> rotationId, station |-> station,
                employeeId |-> employeeId])

toggleForce(prev, rotationId, station, employeeId) ==
  LET exists == findIndex(prev, LAMBDA f : /\ f.rotationId = rotationId
                                           /\ f.employeeId = employeeId
                                           /\ f.station = station)
  IN  IF exists # 0
      THEN SelectSeq(prev, LAMBDA f : f # prev[exists])
      ELSE Append(prev, [rotationId |-> rotationId, station |-> station,
                         employeeId |-> employeeId])

\* The engine run of the green effect ends with a TypeError: a forced
\* assignment names an id that is not a key of history.
throws ==
  \E f \in DOMAIN forcedAssignments :
     forcedAssignments[f].employeeId \notin Range(greenEmployeeIds)

\* The stations in which the view shows a card of the person in the
\* rotation.  A person the rotation's forced assignments name is in the work
\* stations of those entries, and in Side Task when the last of them names
\* it; anybody else is where the engine put them (of the stations explored).
CardStations == DropStations \cup {MUSEUM}
displayedStations(employeeId, rotationId) ==
  LET pins == {f \in DOMAIN forcedAssignments :
                 /\ forcedAssignments[f].rotationId = rotationId
                 /\ forcedAssignments[f].employeeId = employeeId}
  IN  IF throws THEN {}
      ELSE IF pins = {} THEN CardStations
      ELSE {forcedAssignments[f].station : f \in
              {g \in pins : \/ forcedAssignments[g].station \in WorkStations
                            \/ /\ forcedAssignments[g].station = SIDE_TASK
                               /\ \A h \in pins : h <= g}}

toggleTeamLock(prev, team, id) == [prev EXCEPT ![team][id] = ~@]

\* prev.map(...) of swapConfigs on one list.
renamed(list, id1, id2) ==
  [k \in DOMAIN list |->
     IF list[k].employeeId = id1 THEN [list[k] EXCEPT !.employeeId = id2]
     ELSE IF list[k].employeeId = id2 THEN [list[k] EXCEPT !.employeeId = id1]
     ELSE list[k]]

swapConfigs(s, id1, id2) ==
  [s EXCEPT !.forcedAssignments = renamed(s.forcedAssignments, id1, id2),
            !.sideTasks = renamed(s.sideTasks, id1, id2),
            !.shiftExceptions = renamed(s.shiftExceptions, id1, id2)]

\* The exchange of one unlocked pair: the rule entries, then the two names
\* (a falsy name deletes the key, which reads back as "").
swapPair(s, blueId, greenId) ==
  [swapConfigs(s, blueId, greenId) EXCEPT
     !.employeeNames[blueId] = s.greenEmployeeNames[greenId],
     !.greenEmployeeNames[greenId] = s.employeeNames[blueId]]

swapNamesIgnoresLocks(s, locks, blueId, greenId) == swapPair(s, blueId, greenId)

swapNames(s, locks, blueId, greenId) ==
  IF locks.blue[blueId] \/ locks.green[greenId]
  THEN s
  ELSE swapPair(s, blueId, greenId)

min(a, b) == IF a <= b THEN a ELSE b

\* The loop of swapEntireTeams from pair i on.
RECURSIVE swapPairsFrom(_, _, _)
swapPairsFrom(s, locks, i) ==
  IF i > min(blueCount, numEmployees)
  THEN s
  ELSE LET blueId == blueEmployeeIds[i]
           greenId == greenEmployeeIds[i]
       IN  swapPairsFrom(IF locks.blue[blueId] \/ locks.green[greenId]
                         THEN s
                         ELSE swapPair(s, blueId, greenId),
                         locks, i + 1)

swapEntireTeams(s, locks) == swapPairsFrom(s, locks, 1)

\* The view as it is loaded: every blue slot named, the first green slot
\* named, nothing locked, at most one rule entry of each kind.  The names
\* and the locks are keyed by slot id, whatever the roster sizes are.
BlueSlotIds == {0 - i : i \in 1..MaxSlots}
GreenSlotIds == 1..MaxSlots
BlueNames == <<"Ann", "Abe">>
GreenNames == <<"Bea", "">>

InitApp ==
  /\ blueCount \in 1..MaxSlots
  /\ numEmployees \in 1..MaxSlots
  /\ employeeNames = [id \in BlueSlotIds |-> BlueNames[0 - id]]
  /\ greenEmployeeNames = [id \in GreenSlotIds |-> GreenNames[id]]
  /\ teamLocks = [blue |-> [id \in BlueSlotIds |-> FALSE],
                  green |-> [id \in GreenSlotIds |-> FALSE]]
  /\ forcedAssignments \in
       {<<>>} \cup {<<f>> : f \in [rotationId : {1}, station : {MUSEUM},
                                   employeeId : 1..numEmployees]}
  /\ sideTasks \in {<<>>, <<[rotationId |-> 1, employeeId |-> 1]>>}
  /\ shiftExceptions \in
       {<<>>, withIds(<<[employeeId |-> 1, startTime |-> ROTATIONS_META[1].start,
                         endTime |-> ROTATIONS_META[2].end]>>)}
  /\ gesture = NoGesture
  /\ blue = NoBlue
  /\ pc = "app"
  /\ rot = 1
  /\ history = <<>>
  /\ notifications = <<>>
  /\ rotations = <<>>
  /\ assignments = emptyAssignments
  /\ availableEmployees = <<>>
  /\ call = NoCall
  /\ sel = NoSel

done(op, args) ==
  [op |-> op, args |-> args, before |-> snapshot, count |-> gesture.count + 1]

\* A card of the green view is dropped on a drop zone.
HandleDrop ==
  /\ pc = "app"
  /\ gesture.count < MaxGestures
  /\ \E employeeId \in Range(greenEmployeeIds), rotationId \in DropRotations,
        targetRotationId \in DropRotations, targetStation \in DropStations :
       /\ forcedAssignments' = handleDrop(forcedAssignments, employeeId, rotationId,
                                          targetRotationId, targetStation)
       /\ Len(forcedAssignments') <= MaxPins
       /\ gesture' = done("handleDrop", <<employeeId, rotationId, targetRotationId,
                                          targetStation>>)
  /\ UNCHANGED <<numEmployees, sideTasks, shiftExceptions, blueCount, employeeNames,
                 greenEmployeeNames, teamLocks, engine, blue>>

\* A lock button of the swap panel is clicked.
ToggleTeamLock ==
  /\ pc = "app"
  /\ gesture.count < MaxGestures
  /\ \E team \in {"blue", "green"} :
       \E id \in Range(IF team = "blue" THEN blueEmployeeIds ELSE greenEmployeeIds) :
         /\ teamLocks' = toggleTeamLock(teamLocks, team, id)
         /\ gesture' = done("toggleTeamLock", <<team, id>>)
  /\ UNCHANGED <<inputs, blueCount, employeeNames, greenEmployeeNames, engine, blue>>

write(s) ==
  /\ forcedAssignments' = s.forcedAssignments
  /\ sideTasks' = s.sideTasks
  /\ shiftExceptions' = s.shiftExceptions
  /\ employeeNames' = s.employeeNames
  /\ greenEmployeeNames' = s.greenEmployeeNames

\* "Swap Selected" with the two slots selected in the panel.
SwapSelectedEmployees ==
  /\ pc = "app"
  /\ gesture.count < MaxGestures
  /\ \E selectedBlueForSwap \in Range(blueEmployeeIds),
        selectedGreenForSwap \in Range(greenEmployeeIds) :
       /\ write(swapNames(snapshot, teamLocks, selectedBlueForSwap,
                          selectedGreenForSwap))
       /\ gesture' = done("swapNames", <<selectedBlueForSwap, selectedGreenForSwap>>)
  /\ UNCHANGED <<numEmployees, blueCount, teamLocks, engine, blue>>

\* "Swap Entire Team".
SwapEntireTeams ==
  /\ pc = "app"
  /\ gesture.count < MaxGestures
  /\ write(swapEntireTeams(snapshot, teamLocks))
  /\ gesture' = done("swapEntireTeams", <<>>)
  /\ UNCHANGED <<numEmployees, blueCount, teamLocks, engine, blue>>

\* The pin button of a card of the green view is clicked.
ToggleForce ==
  /\ pc = "app"
  /\ gesture.count < MaxGestures
  /\ \E employeeId \in Range(greenEmployeeIds), rotationId \in DropRotations :
       \E station \in displayedStations(employeeId, rotationId) :
         /\ forcedAssignments' = toggleForce(forcedAssignments, rotationId, station,
                                             employeeId)
         /\ Len(forcedAssignments') <= MaxPins
         /\ gesture' = done("toggleForce", <<rotationId, station, employeeId>>)
  /\ UNCHANGED <<numEmployees, sideTasks, shiftExceptions, blueCount, employeeNames,
                 greenEmployeeNames, teamLocks, engine, blue>>

\* "Clear all manual overrides".
ClearForcedAssignments ==
  /\ pc = "app"
  /\ gesture.count < MaxGestures
  /\ forcedAssignments' = <<>>
  /\ gesture' = done("clearForcedAssignments", <<>>)
  /\ UNCHANGED <<numEmployees, sideTasks, shiftExceptions, blueCount, employeeNames,
                 greenEmployeeNames, teamLocks, engine, blue>>

\* The "Employees (Count)" input of the green configuration is edited.
SetNumGreenEmployees ==
  /\ pc = "app"
  /\ gesture.count < MaxGestures
  /\ \E value \in 1..MaxSlots :
       /\ numEmployees' = value
       /\ gesture' = done("setNumGreenEmployees", <<value>>)
  /\ UNCHANGED <<sideTasks, shiftExceptions, forcedAssignments, blueCount,
                 employeeNames, greenEmployeeNames, teamLocks, engine, blue>>

NextApp ==
  \/ HandleDrop
  \/ ToggleTeamLock
  \/ SwapSelectedEmployees
  \/ SwapEntireTeams
  \/ ToggleForce
  \/ ClearForcedAssignments
  \/ SetNumGreenEmployees

SpecApp == InitApp /\ [][NextApp]_vars

(***************************************************************************)
(* The blue generator, generateSchedule.  A Date is its number of minutes  *)
(* after midnight, an unparsable time is NaN, and employee A${i} is 0 - i. *)
(* Step 3 of the function (the coverage issues) only reads allBlocks and   *)
(* is left out: the run ends when the last employee's blocks are built.    *)
(***************************************************************************)
SHOW == "Show"
OCEAN == "Ocean"
FLOOR_MINUS_1 == "Floor -1"

DURATION_SHOW == 30
BUFFER_POST_SHOW == 5
CUTOFF_HOUR == 17

NaN == 0 - 1

\* Bounds of the configurations and of the length of a run.
MaxBlueEmployees == 2
MaxBlocks == 12
BlueFrequencies == {0, 20}
BlueFirstShows == {NaN, 16 * 60}
BlueLastShows == {15 * 60, 16 * 60 + 40, 17 * 60 + 20}
BlueDurations == {0 - 40, 0, 20}
BlueOffsets == {0 - 1, 0, 1}

offsetOceanStart == DURATION_SHOW + BUFFER_POST_SHOW
offsetFloorStart(config) == offsetOceanStart + config.durationOcean
cutoffTime == CUTOFF_HOUR * 60

\* while (!isAfter(currentShow, end)) { push; currentShow += frequency }
RECURSIVE showGrid(_, _, _)
showGrid(currentShow, end, frequency) ==
  IF currentShow > end THEN <<>>
  ELSE <<currentShow>> \o showGrid(currentShow + frequency, end, frequency)

TimeBlock(empId, showStart, kind, station, startTime, endTime) ==
  [id |-> <<empId, showStart, kind>>, station |-> station, startTime |-> startTime,
   endTime |-> endTime, employeeId |-> empId]

\* One pass of the body of the cycle loop up to the search of the next show:
\* the blocks pushed, whether a cutoff check left the loop, and floorEnd.
cycle(config, empId, currentCycleStart) ==
  LET showStart == currentCycleStart
      show == TimeBlock(empId, showStart, "show", SHOW, showStart,
                        showStart + DURATION_SHOW)
      oceanStart == currentCycleStart + offsetOceanStart
      ocean == TimeBlock(empId, showStart, "ocean", OCEAN, oceanStart,
                         oceanStart + config.durationOcean)
      floorStart == currentCycleStart + offsetFloorStart(config)
      floorEnd == floorStart + config.durationFloor
      floor == TimeBlock(empId, showStart, "floor", FLOOR_MINUS_1, floorStart, floorEnd)
  IN  IF ~(showStart < cutoffTime)
        THEN [blocks |-> <<>>, broke |-> TRUE, floorEnd |-> 0]
      ELSE IF ~(oceanStart < cutoffTime)
        THEN [blocks |-> <<show>>, broke |-> TRUE, floorEnd |-> 0]
      ELSE IF ~(floorStart < cutoffTime)
        THEN [blocks |-> <<show, ocean>>, broke |-> TRUE, floorEnd |-> 0]
      ELSE [blocks |-> <<show, ocean, floor>>, broke |-> FALSE, floorEnd |-> floorEnd]

\* showStartTimes.find(t => !isBefore(t, floorEnd)): its index, 0 if none.
nextAvailableShow(showStartTimes, floorEnd) ==
  findIndex(showStartTimes, LAMBDA t : ~(t < floorEnd))

BlueConfigs ==
  [frequency : BlueFrequencies, firstShowTime : BlueFirstShows,
   lastShowTime : BlueLastShows, numEmployees : 1..MaxBlueEmployees,
   durationOcean : BlueDurations, durationFloor : BlueDurations]

\* employeeOffsets: any of the employees may have an entry.
BlueOffsetMaps(n) ==
  UNION {[ids -> BlueOffsets] : ids \in SUBSET {0 - i : i \in 1..n}}

InitBlue ==
  /\ \E config \in BlueConfigs : \E employeeOffsets \in BlueOffsetMaps(config.numEmployees) :
       blue = [pc |-> "start", config |-> config, employeeOffsets |-> employeeOffsets,
               showStartTimes |-> <<>>, allBlocks |-> <<>>, i |-> 1,
               currentCycleStart |-> 0]
  /\ numEmployees = 0
  /\ sideTasks = <<>>
  /\ shiftExceptions = <<>>
  /\ forcedAssignments = <<>>
  /\ pc = "blue"
  /\ rot = 1
  /\ history = <<>>
  /\ notifications = <<>>
  /\ rotations = <<>>
  /\ assignments = emptyAssignments
  /\ availableEmployees = <<>>
  /\ call = NoCall
  /\ sel = NoSel
  /\ blueCount = 0
  /\ employeeNames = <<>>
  /\ greenEmployeeNames = <<>>
  /\ teamLocks = [blue |-> <<>>, green |-> <<>>]
  /\ gesture = NoGesture

\* Lines 27-57: the parse, the guard and the grid of show start times.
GenerateGrid ==
  /\ blue.pc = "start"
  /\ LET start == blue.config.firstShowTime
         end == blue.config.lastShowTime
     IN  IF start = NaN \/ end = NaN \/ end - start <= 0 \/ blue.config.frequency <= 0
         THEN blue' = [blue EXCEPT !.pc = "done"]
         ELSE blue' = [blue EXCEPT !.pc = "employee",
                                   !.showStartTimes =
                                      showGrid(start, end, blue.config.frequency)]
  /\ UNCHANGED <<inputs, app, engine>>

\* Lines 62-69: the head of the employee loop and the starting show.
NextEmployee ==
  /\ blue.pc = "employee"
  /\ IF blue.i > blue.config.numEmployees
     THEN blue' = [blue EXCEPT !.pc = "done"]
     ELSE LET empId == 0 - blue.i
              showIndex == IF empId \in DOMAIN blue.employeeOffsets
                           THEN blue.employeeOffsets[empId]
                           ELSE blue.i - 1
          IN  IF showIndex >= 0 /\ showIndex < Len(blue.showStartTimes)
              THEN blue' = [blue EXCEPT !.pc = "cycle",
                                        !.currentCycleStart =
                                           blue.showStartTimes[showIndex + 1]]
              ELSE blue' = [blue EXCEPT !.i = @ + 1]
  /\ UNCHANGED <<inputs, app, engine>>

\* Lines 72-123: the test of the cycle loop and one pass of its body.
Cycle ==
  /\ blue.pc = "cycle"
  /\ Len(blue.allBlocks) < MaxBlocks
  /\ IF blue.currentCycleStart > blue.config.lastShowTime
     THEN blue' = [blue EXCEPT !.pc = "employee", !.i = @ + 1]
     ELSE LET c == cycle(blue.config, 0 - blue.i, blue.currentCycleStart)
              next == nextAvailableShow(blue.showStartTimes, c.floorEnd)
          IN  IF c.broke \/ next = 0
              THEN blue' = [blue EXCEPT !.pc = "employee", !.i = @ + 1,
                                        !.allBlocks = @ \o c.blocks]
              ELSE blue' = [blue EXCEPT !.allBlocks = @ \o c.blocks,
                                        !.currentCycleStart =
                                           blue.showStartTimes[next]]
  /\ UNCHANGED <<inputs, app, engine>>

NextBlue ==
  \/ GenerateGrid
  \/ NextEmployee
  \/ Cycle

SpecBlue == InitBlue /\ [][NextBlue]_vars

(***************************************************************************)
(* Vocabulary of the properties.                                           *)
(***************************************************************************)
Roster == 1..numEmployees

\* Number of times person p occurs in the six buckets of asg.
occurrences(asg, p) ==
  timesDone(asg[TICKET], p) + timesDone(asg[GREETER], p)
  + timesDone(asg[PLANETARIUM], p) + timesDone(asg[MUSEUM], p)
  + timesDone(asg[SIDE_TASK], p) + timesDone(asg[OFF_SHIFT], p)

\* The forced assignments that name the rotation id.
forcesOf(id) == {k \in DOMAIN forcedAssignments : forcedAssignments[k].rotationId = id}

\* Number of rotations among the first k in which person p is present.
presentCount(p, k) ==
  Cardinality({j \in 1..k : isPresent(p, ROTATIONS_META[j], shiftExceptions)})

\* A scored selection has just been made (sel describes it).
Selected == sel.best # 0

\* The history a candidate of the last selection had when it was scored.
selPast(e) ==
  IF e = sel.best THEN SubSeq(history[e], 1, Len(history[e]) - 1) ELSE history[e]

\* The log holds a shortage notification for the station in the rotation.
missingLogged(id, station) ==
  \E k \in DOMAIN notifications :
     /\ notifications[k].type = "critical"
     /\ notifications[k].rotationId = id
     /\ notifications[k].id[1] = "missing"
     /\ notifications[k].id[3] = station

noRules == sideTasks = <<>> /\ shiftExceptions = <<>> /\ forcedAssignments = <<>>

(***************************************************************************)
(* C1: in every rotation of the output, every person of the roster occurs  *)
(* in exactly one of the six buckets, exactly once.                        *)
(***************************************************************************)
C1_ExactlyOneBucket ==
  \A k \in DOMAIN rotations : \A p \in Roster :
     occurrences(rotations[k].assignments, p) = 1

(***************************************************************************)
(* C2: every forced assignment (r, s, p) whose person is in the roster and *)
(* present in r has p in station s of rotation r's output.                 *)
(***************************************************************************)
C2_ForcedIsPlaced ==
  \A k \in DOMAIN rotations : \A f \in forcesOf(rotations[k].id) :
     LET force == forcedAssignments[f]
     IN (/\ force.employeeId \in Roster
         /\ isPresent(force.employeeId, ROTATIONS_META[k], shiftExceptions))
        => includes(rotations[k].assignments[force.station], force.employeeId)

(***************************************************************************)
(* C3: a forced assignment naming a person who is off shift in that        *)
(* rotation has no effect: the person is in the OffShift bucket, in no     *)
(* other bucket, and their history has no entry for the rotation (it has   *)
(* at most one entry per rotation in which they are present).              *)
(***************************************************************************)
C3_OffShiftPinIgnored ==
  \A k \in DOMAIN rotations : \A f \in forcesOf(rotations[k].id) :
     LET force == forcedAssignments[f]
         p == force.employeeId
     IN (/\ p \in Roster
         /\ ~isPresent(p, ROTATIONS_META[k], shiftExceptions))
        => /\ includes(rotations[k].assignments[OFF_SHIFT], p)
           /\ \A s \in GreenStation \ {OFF_SHIFT} :
                 ~includes(rotations[k].assignments[s], p)
           /\ Len(history[p]) <= presentCount(p, rot)

C6_HistoryGrowsByOne ==
  (pc \in {"categorize", "done"})
     => \A p \in Roster : Len(history[p]) = Len(rotations)

(***************************************************************************)
(* C7: generateGreenSchedule never throws.                                 *)
(***************************************************************************)
C7_NeverThrows == pc # "threw"

(***************************************************************************)
(* C8: with an empty roster every bucket of every rotation is empty and    *)
(* the notification log is empty.                                          *)
(***************************************************************************)
C8_EmptyRosterEmptyLog ==
  (numEmployees = 0)
     => /\ \A k \in DOMAIN rotations : rotations[k].assignments = emptyAssignments
        /\ notifications = <<>>

(***************************************************************************)
(* C8 as amended: with an empty roster every bucket of every rotation is   *)
(* empty, and the log holds one info per shift exception and, per rotation *)
(* of the output, critical shortage notifications for Ticket, Greeter and  *)
(* Planetarium, and nothing else.                                          *)
(***************************************************************************)
C8_EmptyRosterOnlyShortages ==
  (numEmployees = 0)
     => /\ \A k \in DOMAIN rotations :
             /\ rotations[k].assignments = emptyAssignments
             /\ \A s \in {TICKET, GREETER, PLANETARIUM} :
                   missingLogged(rotations[k].id, s)
        /\ \A k \in DOMAIN notifications :
             \/ notifications[k].id[1] = "shift" /\ notifications[k].type = "info"
             \/ /\ notifications[k].id[1] = "missing"
                /\ notifications[k].type = "critical"
                /\ notifications[k].id[3] \in {TICKET, GREETER, PLANETARIUM}

C8_Witness ==
  /\ numEmployees = 0
  /\ Len(rotations) = Len(ROTATIONS_META)
  /\ notifications # <<>>

(***************************************************************************)
(* C9: in a rotation without forced assignments where p people are         *)
(* available, Ticket holds 1 person if p >= 1 and 2 if p >= 4, Greeter 1   *)
(* iff p >= 2, Planetarium 1 iff p >= 3 and Museum max(0, p - 4); a roster *)
(* of 4 gets no critical notification in the first rotation.               *)
(***************************************************************************)
availableCount(k) ==
  numEmployees - Len(rotations[k].assignments[OFF_SHIFT])
               - Len(rotations[k].assignments[SIDE_TASK])

C9_FillOrderCounts ==
  /\ \A k \in DOMAIN rotations :
        (forcesOf(rotations[k].id) = {})
           => LET p == availableCount(k)
                  asg == rotations[k].assignments
              IN /\ Len(asg[TICKET]) = (IF p >= 4 THEN 2 ELSE IF p >= 1 THEN 1 ELSE 0)
                 /\ Len(asg[GREETER]) = (IF p >= 2 THEN 1 ELSE 0)
                 /\ Len(asg[PLANETARIUM]) = (IF p >= 3 THEN 1 ELSE 0)
                 /\ Len(asg[MUSEUM]) = max(0, p - 4)
  /\ (numEmployees = 4 /\ noRules /\ Len(rotations) >= 1)
        => \A k \in DOMAIN notifications :
              ~(notifications[k].rotationId = 1 /\ notifications[k].type = "critical")

C9_Witness ==
  \E k \in DOMAIN rotations :
     /\ forcesOf(rotations[k].id) = {}
     /\ availableCount(k) = 5
     /\ Len(rotations[k].assignments[MUSEUM]) = 1

(***************************************************************************)
(* C10: with a roster of 2 and no rules, the first rotation's log holds    *)
(* critical shortage notifications for Greeter and for Planetarium, and    *)
(* both people are assigned to a station of that rotation.                 *)
(***************************************************************************)
bothAssigned ==
  \A p \in Roster :
     \E s \in WorkStations : includes(rotations[1].assignments[s], p)

C10_GreeterAndPlanetariumShort ==
  (numEmployees = 2 /\ noRules /\ Len(rotations) >= 1)
     => /\ missingLogged(1, GREETER)
        /\ missingLogged(1, PLANETARIUM)
        /\ bothAssigned

(***************************************************************************)
(* C10 as amended: with a roster of 2 and no rules, the first rotation's   *)
(* log holds critical shortage notifications for Planetarium and for       *)
(* Ticket and none for Greeter, and both people are assigned to a station  *)
(* of that rotation.                                                       *)
(***************************************************************************)
C10_PlanetariumAndTicketShort ==
  (numEmployees = 2 /\ noRules /\ Len(rotations) >= 1)
     => /\ missingLogged(1, PLANETARIUM)
        /\ missingLogged(1, TICKET)
        /\ ~missingLogged(1, GREETER)
        /\ bothAssigned

C10_Witness ==
  /\ numEmployees = 2 /\ noRules /\ Len(rotations) >= 1
  /\ Len(rotations[1].assignments[TICKET]) = 1
  /\ Len(rotations[1].assignments[GREETER]) = 1

(***************************************************************************)
(* Vocabulary of the shift-exception properties: times are compared as     *)
(* written (hours, then minutes).                                          *)
(***************************************************************************)
\* Time a is not later than time b.
notAfter(a, b) == a[1] < b[1] \/ (a[1] = b[1] /\ a[2] <= b[2])

\* The window of exception ex lies entirely outside the rotation's window.
outsideWindow(ex, rotMeta) ==
  notAfter(ex.endTime, rotMeta.start) \/ notAfter(rotMeta.end, ex.startTime)

\* Index of the first shift exception that names person p, 0 if none.
firstException(p) == findIndex(shiftExceptions, LAMBDA e : e.employeeId = p)

\* The classification of a rotation has just been made.
Classified == pc = "forces"

\* B1 is in the roster and the only shift exception names B1, with a window
\* entirely outside rotation 3's window.
soleExceptionOutsideRotation3 ==
  /\ 1 \in Roster
  /\ Len(shiftExceptions) = 1
  /\ shiftExceptions[1].employeeId = 1
  /\ outsideWindow(shiftExceptions[1], ROTATIONS_META[3])

(***************************************************************************)
(* C11: a sole shift exception for B1 whose window lies entirely outside   *)
(* rotation 3's window puts B1 in OffShift in rotation 3 and in the        *)
(* available pool in rotations 1, 2, 4 and 5 (where no side task names     *)
(* B1).                                                                    *)
(***************************************************************************)
C11_OffShiftInRotation3Only ==
  (/\ Classified
   /\ soleExceptionOutsideRotation3
   /\ ~hasSideTask(1, ROTATIONS_META[rot], sideTasks))
     => IF rot = 3 THEN includes(assignments[OFF_SHIFT], 1)
                   ELSE includes(availableEmployees, 1)

(***************************************************************************)
(* C11 as amended: such an exception puts B1 in OffShift in rotation 3 and *)
(* in every other rotation its window does not overlap, and in the         *)
(* available pool exactly in the rotations its window overlaps.            *)
(***************************************************************************)
C11_OffShiftWhereNoOverlap ==
  (/\ Classified
   /\ soleExceptionOutsideRotation3
   /\ ~hasSideTask(1, ROTATIONS_META[rot], sideTasks))
     => /\ rot = 3 => includes(assignments[OFF_SHIFT], 1)
        /\ includes(assignments[OFF_SHIFT], 1)
             <=> outsideWindow(shiftExceptions[1], ROTATIONS_META[rot])
        /\ includes(availableEmployees, 1)
             <=> ~outsideWindow(shiftExceptions[1], ROTATIONS_META[rot])

C11_Witness ==
  /\ Classified
  /\ soleExceptionOutsideRotation3
  /\ rot = 3
  /\ includes(assignments[OFF_SHIFT], 1)
  /\ ~outsideWindow(shiftExceptions[1], ROTATIONS_META[1])

(***************************************************************************)
(* C12: for every rotation of the output and every roster person with no   *)
(* forced assignment in that rotation, the person is in OffShift iff the   *)
(* first shift exception naming them ends at or before the rotation's      *)
(* start or starts at or after the rotation's end; a person without an     *)
(* exception is never in OffShift.                                         *)
(***************************************************************************)
C12_OffShiftIffFirstExceptionOutside ==
  \A k \in DOMAIN rotations : \A p \in Roster :
     (\A f \in forcesOf(rotations[k].id) : forcedAssignments[f].employeeId # p)
       => (includes(rotations[k].assignments[OFF_SHIFT], p)
             <=> /\ firstException(p) # 0
                 /\ outsideWindow(shiftExceptions[firstException(p)], ROTATIONS_META[k]))

\* A person is present in a rotation that their first exception overlaps only
\* partially, although their second exception ends where the rotation starts.
C12_Witness ==
  \E k \in DOMAIN rotations : \E p \in Roster :
     /\ forcesOf(rotations[k].id) = {}
     /\ Len(shiftExceptions) = 2
     /\ shiftExceptions[1].employeeId = p /\ shiftExceptions[2].employeeId = p
     /\ ~notAfter(shiftExceptions[1].startTime, ROTATIONS_META[k].start)
     /\ ~notAfter(ROTATIONS_META[k].end, shiftExceptions[1].startTime)
     /\ ~notAfter(shiftExceptions[1].endTime, shiftExceptions[1].startTime)
     /\ shiftExceptions[2].endTime = ROTATIONS_META[k].start
     /\ ~includes(rotations[k].assignments[OFF_SHIFT], p)

(***************************************************************************)
(* Vocabulary of the shortage properties.                                  *)
(***************************************************************************)
\* The positions of the log that hold a shortage notification for the station
\* in the rotation.
shortagesLogged(id, station) ==
  {k \in DOMAIN notifications :
     /\ notifications[k].type = "critical"
     /\ notifications[k].rotationId = id
     /\ notifications[k].id[1] = "missing"
     /\ notifications[k].id[3] = station}

\* The number of people a station needs in a rotation.
minimumOf(station) == IF station = TICKET THEN TicketSecond ELSE GreeterTarget

(***************************************************************************)
(* C13: for every rotation of the output and each of Ticket (minimum 2),   *)
(* Greeter (1) and Planetarium (1), the log holds exactly one critical     *)
(* shortage notification for the station and rotation, stating the         *)
(* required and the achieved count, if the station ends the rotation       *)
(* below its minimum, and none otherwise; Museum never gets one; a run     *)
(* that ends has processed every rotation.                                 *)
(***************************************************************************)
C13_OneShortagePerShortStation ==
  /\ \A k \in DOMAIN rotations :
        LET asg == rotations[k].assignments
            id == rotations[k].id
        IN /\ \A s \in {TICKET, GREETER, PLANETARIUM} :
                 /\ Cardinality(shortagesLogged(id, s))
                      = (IF Len(asg[s]) < minimumOf(s) THEN 1 ELSE 0)
                 /\ \A n \in shortagesLogged(id, s) :
                       /\ notifications[n].message[3] = minimumOf(s)
                       /\ notifications[n].message[4] = Len(asg[s])
           /\ shortagesLogged(id, MUSEUM) = {}
  /\ pc = "done" => Len(rotations) = Len(ROTATIONS_META)

(***************************************************************************)
(* Vocabulary of the forced-assignment properties.                         *)
(***************************************************************************)
\* While the forced assignments of a rotation are about to be processed: the
\* history person p had when the rotation began (the classification appends
\* an entry exactly for the people it puts in the SideTask bucket).
historyBefore(p) ==
  IF includes(assignments[SIDE_TASK], p)
    THEN SubSeq(history[p], 1, Len(history[p]) - 1)
    ELSE history[p]

\* The forced assignments of the rotation have just been processed.
ForcesProcessed == pc = "forces" /\ pc' # "forces"

\* The step appends a manual-override warning naming person p to the log.
overrideWarned(p) ==
  \E k \in (Len(notifications) + 1)..Len(notifications') :
     /\ notifications'[k].type = "warning"
     /\ notifications'[k].id[1] \in {"warn-force-repeat", "warn-force-arora"}
     /\ notifications'[k].id[3] = p

\* The list without the entries equal to an earlier entry.
RECURSIVE removeRepeats(_, _)
removeRepeats(fs, seen) ==
  IF fs = <<>> THEN <<>>
  ELSE IF Head(fs) \in seen THEN removeRepeats(Tail(fs), seen)
  ELSE <<Head(fs)>> \o removeRepeats(Tail(fs), seen \cup {Head(fs)})

(***************************************************************************)
(* C14: whenever a forced assignment of rotation r puts a roster person on *)
(* the station of their most recent history entry from an earlier          *)
(* rotation, or on Planetarium when their history already holds            *)
(* Planetarium, processing the forced assignments of r appends a           *)
(* manual-override warning naming the person and leaves the person in the  *)
(* forced station.                                                         *)
(***************************************************************************)
C14_OverrideWarnedAndApplied ==
  [][ForcesProcessed =>
       \A f \in forcesOf(ROTATIONS_META[rot].id) :
          LET force == forcedAssignments[f]
              p == force.employeeId
          IN (/\ p \in Roster
              /\ \/ lastStationOf(historyBefore(p)) = force.station
                 \/ /\ force.station = PLANETARIUM
                    /\ includes(historyBefore(p), PLANETARIUM))
             => /\ overrideWarned(p)
                /\ includes(assignments'[force.station], p)]_vars

(***************************************************************************)
(* C15: the forced assignments of a rotation produce the same buckets, the *)
(* same history and the same log as the same list with every repeated      *)
(* (rotation, station, person) entry given once.                           *)
(***************************************************************************)
C15_RepinIsIdempotent ==
  (pc = "forces")
     => LET fs == rotationForces(forcedAssignments, ROTATIONS_META[rot])
            st == [assignments |-> assignments, pool |-> availableEmployees,
                   history |-> history, notifications |-> notifications,
                   threw |-> FALSE]
        IN applyForces(removeRepeats(fs, {}), ROTATIONS_META[rot], st)
             = applyForces(fs, ROTATIONS_META[rot], st)

(***************************************************************************)
(* Vocabulary of the notification properties: the kind of a notification   *)
(* is the prefix of its id.                                                *)
(***************************************************************************)
kindOf(n) == n.id[1]

ShortageKinds == {"missing"}
FallbackKinds == {"warn-repeat", "warn-limit-arora"}
OverrideKinds == {"warn-force-repeat", "warn-force-arora"}

(***************************************************************************)
(* C16: every shortage notification has severity critical, and every       *)
(* notification of a rule broken by the scorer (back-to-back repeat,       *)
(* second Planetarium) or by a forced assignment has severity warning.     *)
(***************************************************************************)
C16_ShortageCriticalRuleBreakWarning ==
  \A k \in DOMAIN notifications :
     /\ kindOf(notifications[k]) \in ShortageKinds => notifications[k].type = "critical"
     /\ kindOf(notifications[k]) \in FallbackKinds \cup OverrideKinds
          => notifications[k].type = "warning"

(***************************************************************************)
(* C16 as amended: every shortage notification has severity critical; a    *)
(* back-to-back repeat made by the scorer is a warning and a second        *)
(* Planetarium made by the scorer is critical; the notifications of a rule *)
(* broken by a forced assignment are warnings.                             *)
(***************************************************************************)
C16_SecondPlanetariumIsCritical ==
  \A k \in DOMAIN notifications :
     /\ kindOf(notifications[k]) \in ShortageKinds => notifications[k].type = "critical"
     /\ kindOf(notifications[k]) = "warn-repeat" => notifications[k].type = "warning"
     /\ kindOf(notifications[k]) = "warn-limit-arora" => notifications[k].type = "critical"
     /\ kindOf(notifications[k]) \in OverrideKinds => notifications[k].type = "warning"

C16_Witness ==
  /\ \E k \in DOMAIN notifications : kindOf(notifications[k]) = "warn-limit-arora"
  /\ \E k \in DOMAIN notifications : kindOf(notifications[k]) = "warn-repeat"
  /\ \E k \in DOMAIN notifications : kindOf(notifications[k]) \in ShortageKinds

(***************************************************************************)
(* C17: every notification other than the shift-exception infos carries    *)
(* the id of the rotation that raised it, and the shift-exception infos    *)
(* carry none.                                                             *)
(***************************************************************************)
C17_RotationIdOnRotationNotices ==
  \A k \in DOMAIN notifications :
     IF kindOf(notifications[k]) = "shift"
       THEN notifications[k].rotationId = 0
       ELSE notifications[k].rotationId = notifications[k].id[2]

(***************************************************************************)
(* C19: the log is append-only: every step leaves the notifications        *)
(* already in the log in place, in order and unmodified.                   *)
(***************************************************************************)
C19_LogAppendOnly ==
  [][/\ Len(notifications') >= Len(notifications)
     /\ SubSeq(notifications', 1, Len(notifications)) = notifications]_vars

\* A log to which the exception pre-pass, a classification, a forced
\* assignment and the priorities have each added a notification.
C19_Witness ==
  /\ \E k \in DOMAIN notifications : kindOf(notifications[k]) = "shift"
  /\ \E k \in DOMAIN notifications : kindOf(notifications[k]) = "side"
  /\ \E k \in DOMAIN notifications : kindOf(notifications[k]) \in ShortageKinds
  /\ \E k \in DOMAIN notifications : kindOf(notifications[k]) = "warn-repeat"

(***************************************************************************)
(* Vocabulary of the scoring properties, on the candidates of the last     *)
(* scored selection.                                                       *)
(***************************************************************************)
\* Candidate e carried the short-gap penalty and the escape bonus.
gapAndEscape(e) ==
  /\ sel.station # MUSEUM
  /\ secondLastStationOf(selPast(e)) = sel.station
  /\ lastStationOf(selPast(e)) = MUSEUM

\* Candidate e carried none of the two, nor a repeat or Planetarium penalty.
plainCandidate(e) ==
  /\ lastStationOf(selPast(e)) # sel.station
  /\ secondLastStationOf(selPast(e)) # sel.station
  /\ lastStationOf(selPast(e)) # MUSEUM
  /\ ~(sel.station = PLANETARIUM /\ includes(selPast(e), PLANETARIUM))

(***************************************************************************)
(* C20: the scoring terms are ordered consecutive-repeat penalty >         *)
(* Planetarium penalty > short-gap penalty > escape bonus > variety        *)
(* penalty, so in a scored placement whose pool holds a candidate with the *)
(* short-gap penalty and the escape bonus and a candidate with neither,    *)
(* the former is not the one selected.                                     *)
(***************************************************************************)
C20_TermOrderAsStated ==
  (/\ Selected
   /\ \E e \in Range(sel.pool) : plainCandidate(e)
   /\ \E e \in Range(sel.pool) : gapAndEscape(e))
     => /\ NuclearPenalty > MaximumPenalty
        /\ MaximumPenalty > MajorPenalty
        /\ MajorPenalty > MuseumBonus
        /\ MuseumBonus > VarietyWeight
        /\ ~gapAndEscape(sel.best)

(***************************************************************************)
(* C20 as amended: the scoring terms are ordered Planetarium penalty >     *)
(* consecutive-repeat penalty > escape bonus > short-gap penalty > variety *)
(* penalty, so in a placement for Ticket or Greeter a candidate with       *)
(* neither the short-gap penalty nor the escape bonus is never selected    *)
(* while the pool holds a candidate with both.                             *)
(***************************************************************************)
C20_TermOrderOfTheScorer ==
  /\ MaximumPenalty > NuclearPenalty
  /\ NuclearPenalty > MuseumBonus
  /\ MuseumBonus > MajorPenalty
  /\ MajorPenalty > VarietyWeight
  /\ (/\ Selected
      /\ sel.station # PLANETARIUM
      /\ \E e \in Range(sel.pool) : gapAndEscape(e))
        => ~plainCandidate(sel.best)

C20_Witness ==
  /\ Selected
  /\ sel.station # PLANETARIUM
  /\ \E e \in Range(sel.pool) : gapAndEscape(e)
  /\ \E e \in Range(sel.pool) : plainCandidate(e)

(***************************************************************************)
(* Vocabulary of the properties of a scored placement.                     *)
(***************************************************************************)
\* The id of the rotation in which the last scored selection was made.
selRotation == IF pc = "assign" THEN ROTATIONS_META[rot].id ELSE Len(rotations)

\* Candidate e came back from a side task that followed the station being
\* filled.
backFromSideTask(e) ==
  /\ lastStationOf(selPast(e)) = SIDE_TASK
  /\ secondLastStationOf(selPast(e)) = sel.station

\* The log holds a notification of the scorer, of one of the kinds, for
\* person p in the rotation.
scorerNoticed(kinds, id, p) ==
  \E k \in DOMAIN notifications :
     /\ kindOf(notifications[k]) \in kinds
     /\ notifications[k].type \in {"warning", "critical"}
     /\ notifications[k].id[2] = id
     /\ notifications[k].id[3] = p

(***************************************************************************)
(* C21: a candidate whose last history entry is SideTask and whose entry   *)
(* before it is the station being filled gets neither the                  *)
(* consecutive-repeat nor the short-gap penalty for that station, and no   *)
(* back-to-back warning is raised when they are placed there.              *)
(***************************************************************************)
C21_NoPenaltyAfterSideTask ==
  Selected =>
    \A e \in Range(sel.pool) :
       backFromSideTask(e)
         => /\ consecutiveRepeat(selPast(e), sel.station)
                 + gapOfTwo(selPast(e), sel.station) = 0
            /\ e = sel.best => ~scorerNoticed({"warn-repeat"}, selRotation, e)

(***************************************************************************)
(* C21 as amended: such a candidate gets no consecutive-repeat penalty and *)
(* no back-to-back warning, but does get the short-gap penalty: they are   *)
(* not the one selected while the pool holds a candidate free of repeat,   *)
(* gap and Planetarium penalties.                                          *)
(***************************************************************************)
C21_OnlyGapPenaltyAfterSideTask ==
  Selected =>
    \A e \in Range(sel.pool) :
       backFromSideTask(e)
         => /\ consecutiveRepeat(selPast(e), sel.station) = 0
            /\ gapOfTwo(selPast(e), sel.station) = MajorPenalty
            /\ e = sel.best => ~scorerNoticed({"warn-repeat"}, selRotation, e)
            /\ (\E b \in Range(sel.pool) : plainCandidate(b)) => e # sel.best

C21_Witness ==
  /\ Selected
  /\ \E e \in Range(sel.pool) : backFromSideTask(e)
  /\ \E b \in Range(sel.pool) : plainCandidate(b)

(***************************************************************************)
(* C22: for every rotation of the output and every roster person, the log  *)
(* holds a side-task info notification for the pair (exactly one) iff the  *)
(* person is in the rotation's SideTask bucket; a present person named by  *)
(* a side-task rule of the rotation and not pinned in it is in SideTask    *)
(* and in no work station.                                                 *)
(***************************************************************************)
sideNotices(id, p) ==
  {k \in DOMAIN notifications :
     /\ kindOf(notifications[k]) = "side"
     /\ notifications[k].type = "info"
     /\ notifications[k].id[2] = id
     /\ notifications[k].id[3] = p}

C22_SideNoticeIffInSideTask ==
  \A k \in DOMAIN rotations : \A p \in Roster :
     LET asg == rotations[k].assignments
     IN /\ Cardinality(sideNotices(rotations[k].id, p))
             = (IF includes(asg[SIDE_TASK], p) THEN 1 ELSE 0)
        /\ (/\ isPresent(p, ROTATIONS_META[k], shiftExceptions)
            /\ hasSideTask(p, ROTATIONS_META[k], sideTasks)
            /\ \A f \in forcesOf(rotations[k].id) : forcedAssignments[f].employeeId # p)
             => /\ includes(asg[SIDE_TASK], p)
                /\ \A s \in WorkStations : ~includes(asg[s], p)

(***************************************************************************)
(* C23: whenever the scorer places a person on the station of their        *)
(* immediately preceding history entry, or on Planetarium when their       *)
(* history already holds Planetarium, the log holds a warning or critical  *)
(* notification of the scorer naming the person and the rotation, for      *)
(* every station, Museum included.                                         *)
(***************************************************************************)
C23_EveryRuleBreakNoticed ==
  (/\ Selected
   /\ \/ lastStationOf(selPast(sel.best)) = sel.station
      \/ sel.station = PLANETARIUM /\ includes(selPast(sel.best), PLANETARIUM))
     => scorerNoticed(FallbackKinds, selRotation, sel.best)

(***************************************************************************)
(* C23 as amended: the same for every station but Museum; a person the     *)
(* scorer places in Museum right after Museum gets no notification.        *)
(***************************************************************************)
C23_RuleBreakNoticedButMuseum ==
  /\ (/\ Selected
      /\ sel.station # MUSEUM
      /\ \/ lastStationOf(selPast(sel.best)) = sel.station
         \/ sel.station = PLANETARIUM /\ includes(selPast(sel.best), PLANETARIUM))
        => scorerNoticed(FallbackKinds, selRotation, sel.best)
  /\ (Selected /\ sel.station = MUSEUM)
        => ~scorerNoticed(FallbackKinds, selRotation, sel.best)

C23_Witness ==
  /\ Selected
  /\ sel.station = MUSEUM
  /\ lastStationOf(selPast(sel.best)) = MUSEUM

(***************************************************************************)
(* Vocabulary of the fill properties.                                      *)
(***************************************************************************)
\* The people pinned to the station in the rotation.
pinnedTo(id, station) ==
  {forcedAssignments[f].employeeId :
     f \in {g \in forcesOf(id) : forcedAssignments[g].station = station}}

\* The roster people the classification of rotation k puts in the pool and
\* no forced assignment of the rotation names.
scoredPool(k) ==
  {p \in Roster :
     /\ isPresent(p, ROTATIONS_META[k], shiftExceptions)
     /\ ~hasSideTask(p, ROTATIONS_META[k], sideTasks)
     /\ \A f \in forcesOf(ROTATIONS_META[k].id) : forcedAssignments[f].employeeId # p}

\* The number of people the scorer added to the station in rotation k.
scoredInto(k, station) ==
  Len(rotations[k].assignments[station]) - Cardinality(pinnedTo(rotations[k].id, station))

(***************************************************************************)
(* C24: in every rotation of the output, for Ticket (target 2), Greeter    *)
(* (1) and Planetarium (1) with k pinned members the scorer adds at most   *)
(* max(0, target - k) people, so the station holds at most max(k, target)  *)
(* people; Museum receives exactly the people of the pool the other        *)
(* stations did not take, and the pool is empty when the rotation ends.    *)
(***************************************************************************)
C24_PinnedCountTowardTarget ==
  /\ \A k \in DOMAIN rotations :
        /\ \A s \in {TICKET, GREETER, PLANETARIUM} :
              LET pinned == Cardinality(pinnedTo(rotations[k].id, s))
              IN /\ scoredInto(k, s) <= max(0, minimumOf(s) - pinned)
                 /\ Len(rotations[k].assignments[s]) <= max(pinned, minimumOf(s))
        /\ scoredInto(k, MUSEUM)
             = Cardinality(scoredPool(k)) - scoredInto(k, TICKET)
                 - scoredInto(k, GREETER) - scoredInto(k, PLANETARIUM)
  /\ (pc \in {"categorize", "done"}) => availableEmployees = <<>>

\* A finished day with a rotation in which every place of Ticket, Greeter and
\* Planetarium is pinned and the scorer puts the pool in Museum.
C24_Witness ==
  /\ \E k \in DOMAIN rotations :
        /\ Cardinality(pinnedTo(rotations[k].id, TICKET)) = 2
        /\ Cardinality(pinnedTo(rotations[k].id, GREETER)) = 1
        /\ scoredInto(k, MUSEUM) >= 1
  /\ pc = "done"

(***************************************************************************)
(* C28: in every scored placement for a station S whose pool holds a       *)
(* candidate whose last history entry is not S, the last history entry of  *)
(* the selected candidate is not S.                                        *)
(***************************************************************************)
C28_RepeatPenaltyDominates ==
  (Selected /\ lastStationOf(selPast(sel.best)) = sel.station)
     => \A e \in Range(sel.pool) : lastStationOf(selPast(e)) = sel.station

\* The candidate selected carries the short-gap penalty, and a candidate of
\* the pool would repeat the station.
C28_Witness ==
  /\ Selected
  /\ secondLastStationOf(selPast(sel.best)) = sel.station
  /\ lastStationOf(selPast(sel.best)) # sel.station
  /\ \E e \in Range(sel.pool) : lastStationOf(selPast(e)) = sel.station

(***************************************************************************)
(* C29: in every scored placement for Planetarium whose pool holds a       *)
(* candidate with no Planetarium entry in their history, the selected      *)
(* candidate has no Planetarium entry in their history.                    *)
(***************************************************************************)
C29_PlanetariumPenaltyDominates ==
  (/\ Selected
   /\ sel.station = PLANETARIUM
   /\ \E e \in Range(sel.pool) : ~includes(selPast(e), PLANETARIUM))
     => ~includes(selPast(sel.best), PLANETARIUM)

\* The candidate selected for Planetarium has two entries or more, none of
\* them Planetarium; a candidate of the pool has a Planetarium entry that is
\* not their last one.
C29_Witness ==
  /\ Selected
  /\ sel.station = PLANETARIUM
  /\ ~includes(selPast(sel.best), PLANETARIUM)
  /\ Len(selPast(sel.best)) >= 2
  /\ \E e \in Range(sel.pool) :
        /\ includes(selPast(e), PLANETARIUM)
        /\ lastStationOf(selPast(e)) # PLANETARIUM

(***************************************************************************)
(* C30: in every scored placement for Ticket or Greeter whose pool holds a *)
(* candidate whose last history entry is Museum, the last history entry of *)
(* the selected candidate is Museum.                                       *)
(***************************************************************************)
C30_MuseumLeaversFirst ==
  (/\ Selected
   /\ sel.station \in {TICKET, GREETER}
   /\ \E e \in Range(sel.pool) : lastStationOf(selPast(e)) = MUSEUM)
     => lastStationOf(selPast(sel.best)) = MUSEUM

C30_Witness ==
  /\ Selected
  /\ sel.station \in {TICKET, GREETER}
  /\ lastStationOf(selPast(sel.best)) = MUSEUM
  /\ \E e \in Range(sel.pool) : lastStationOf(selPast(e)) \notin {MUSEUM, sel.station}

(***************************************************************************)
(* The handlers of App.tsx.                                                *)
(***************************************************************************)

\* The entries of a list that name the person, and in a rotation.
naming(list, id) == {k \in DOMAIN list : list[k].employeeId = id}
pinsOf(list, rotationId, id) ==
  {k \in naming(list, id) : list[k].rotationId = rotationId}
otherPins(list, rotationId, id) ==
  SelectSeq(list, LAMBDA f : ~(f.rotationId = rotationId /\ f.employeeId = id))

dropped == gesture.op = "handleDrop"
swapped == gesture.op \in {"swapNames", "swapEntireTeams"}

\* C25: after a drop of a person's card on a station of the card's own
\* rotation the list holds exactly one forced assignment of that (rotation,
\* person) pair, it has the target station, and the forced assignments of
\* every other pair are the ones of before, in their order; after a drop
\* on a station of another rotation the list is the one of before.
C25_DropPinsOnce ==
  dropped =>
    LET employeeId == gesture.args[1]
        rotationId == gesture.args[2]
        targetRotationId == gesture.args[3]
        targetStation == gesture.args[4]
        before == gesture.before.forcedAssignments
    IN  IF rotationId = targetRotationId
        THEN /\ Cardinality(pinsOf(forcedAssignments, rotationId, employeeId)) = 1
             /\ \A k \in pinsOf(forcedAssignments, rotationId, employeeId) :
                  forcedAssignments[k].station = targetStation
             /\ otherPins(forcedAssignments, rotationId, employeeId)
                  = otherPins(before, rotationId, employeeId)
        ELSE forcedAssignments = before

\* A drop in the card's rotation on a person pinned elsewhere in that
\* rotation, while another pair is pinned too.
C25_Witness ==
  /\ dropped
  /\ gesture.args[2] = gesture.args[3]
  /\ \E k \in pinsOf(gesture.before.forcedAssignments, gesture.args[2], gesture.args[1]) :
       gesture.before.forcedAssignments[k].station # gesture.args[4]
  /\ otherPins(gesture.before.forcedAssignments, gesture.args[2], gesture.args[1]) # <<>>

\* The entries of the three rule lists that name the slot are the ones of
\* before the handler ran.
rulesKept(id) ==
  /\ \A k \in DOMAIN forcedAssignments :
       (k \in naming(forcedAssignments, id)
          \/ k \in naming(gesture.before.forcedAssignments, id))
       => forcedAssignments[k] = gesture.before.forcedAssignments[k]
  /\ \A k \in DOMAIN sideTasks :
       (k \in naming(sideTasks, id) \/ k \in naming(gesture.before.sideTasks, id))
       => sideTasks[k] = gesture.before.sideTasks[k]
  /\ \A k \in DOMAIN shiftExceptions :
       (k \in naming(shiftExceptions, id)
          \/ k \in naming(gesture.before.shiftExceptions, id))
       => shiftExceptions[k] = gesture.before.shiftExceptions[k]

\* C26: after a single swap or a full-team swap every locked blue slot
\* and every locked green slot has the name it had before, and every
\* forced assignment, side task and shift exception naming the slot's id
\* is the one of before.
C26_LockedSlotsKept ==
  swapped =>
    /\ \A id \in Range(blueEmployeeIds) :
         teamLocks.blue[id] =>
           /\ employeeNames[id] = gesture.before.employeeNames[id]
           /\ rulesKept(id)
    /\ \A id \in Range(greenEmployeeIds) :
         teamLocks.green[id] =>
           /\ greenEmployeeNames[id] = gesture.before.greenEmployeeNames[id]
           /\ rulesKept(id)

\* A full-team swap that exchanged one pair while a locked green slot of
\* another pair was named by a forced assignment.
C26_Witness ==
  /\ gesture.op = "swapEntireTeams"
  /\ employeeNames # gesture.before.employeeNames
  /\ \E id \in Range(greenEmployeeIds) :
       /\ teamLocks.green[id]
       /\ naming(forcedAssignments, id) # {}

\* C27: after a single swap or a full-team swap the forced assignments,
\* the side tasks and the shift exceptions are the ones of before.
C27_SwapLeavesRules ==
  swapped =>
    /\ forcedAssignments = gesture.before.forcedAssignments
    /\ sideTasks = gesture.before.sideTasks
    /\ shiftExceptions = gesture.before.shiftExceptions

\* The score of a candidate of the last selection without the random term.
ruleScore(e) ==
  score(e, sel.station, [p \in Range(sel.pool) |-> selPast(p)], 0)

(***************************************************************************)
(* C31: in every scored placement, whatever the random draws, no candidate *)
(* of the pool has a lower score without the random term than the          *)
(* selected candidate.                                                     *)
(***************************************************************************)
C31_RandomNeverOverridesRules ==
  Selected => \A e \in Range(sel.pool) : ruleScore(sel.best) <= ruleScore(e)

\* The draw selected a candidate that stands behind another of the same
\* rule score in the pool, while a third candidate has a higher rule score.
C31_Witness ==
  /\ Selected
  /\ \E j, k \in DOMAIN sel.pool :
        /\ j < k
        /\ sel.pool[k] = sel.best
        /\ ruleScore(sel.pool[j]) = ruleScore(sel.best)
  /\ \E e \in Range(sel.pool) : ruleScore(e) > ruleScore(sel.best)

\* A rotation is being processed: its buckets are not in the output yet.
inProgress == pc \in {"forces", "shuffle", "assign", "threw"}

\* The placements of person p in station s by the rotations processed so
\* far: the rotations of the output and the one in progress.
placements(p, s) ==
  Cardinality({k \in DOMAIN rotations : includes(rotations[k].assignments[s], p)})
    + (IF inProgress /\ includes(assignments[s], p) THEN 1 ELSE 0)

\* The output lists rotations 1..k in order, the rotation in progress is the
\* next one, and every work-station entry of the history is a placement made
\* by a rotation processed so far.
processedInOrder ==
  /\ \A k \in DOMAIN rotations : rotations[k].id = ROTATIONS_META[k].id
  /\ Len(rotations) = (IF pc = "done" THEN Len(ROTATIONS_META) ELSE rot - 1)
  /\ \A p \in DOMAIN history : \A s \in WorkStations :
        timesDone(history[p], s) = placements(p, s)

(***************************************************************************)
(* C32: the rotations are processed in the order 1..5 and the output lists *)
(* them in that order; while rotation k is processed every work-station    *)
(* entry of the history is a placement made by a rotation up to k; and a   *)
(* step of the run never changes the rotations the output already holds    *)
(* nor moves back to an earlier rotation.                                   *)
(***************************************************************************)
C32_CalendarOrder ==
  [][/\ processedInOrder'
     /\ rot' \in {rot, rot + 1}
     /\ Len(rotations') >= Len(rotations)
     /\ SubSeq(rotations', 1, Len(rotations)) = rotations]_vars

\* A finished day on which somebody worked a station in all five rotations.
C32_Witness ==
  /\ pc = "done"
  /\ Len(rotations) = Len(ROTATIONS_META)
  /\ \E p \in DOMAIN history :
        /\ Len(history[p]) = Len(ROTATIONS_META)
        /\ \A k \in DOMAIN history[p] : history[p][k] \in WorkStations

(***************************************************************************)
(* C33: the notifications of the log have pairwise distinct ids.           *)
(***************************************************************************)
C33_DistinctNotificationIds ==
  \A j, k \in DOMAIN notifications :
     j # k => notifications[j].id # notifications[k].id

\* The person is not in the OffShift bucket of rotation k of the output.
onShift(p, k) == ~includes(rotations[k].assignments[OFF_SHIFT], p)

\* The first exception naming the person starts before it ends, and no
\* forced assignment names the person.
properWindowNoPins(p) ==
  /\ firstException(p) # 0
  /\ getMinutes(shiftExceptions[firstException(p)].startTime)
       < getMinutes(shiftExceptions[firstException(p)].endTime)
  /\ \A f \in DOMAIN forcedAssignments : forcedAssignments[f].employeeId # p

(***************************************************************************)
(* C34: on a finished day, for a roster person whose shift exception       *)
(* starts before it ends and whom no forced assignment names, the          *)
(* rotations in which the person is not OffShift are contiguous: the       *)
(* person is never OffShift in a rotation between two rotations in which   *)
(* they are not.                                                           *)
(***************************************************************************)
C34_PresenceIsContiguous ==
  pc = "done" =>
    \A p \in Roster :
       properWindowNoPins(p) =>
         \A i, j, k \in DOMAIN rotations :
            (i < j /\ j < k /\ onShift(p, i) /\ onShift(p, k)) => onShift(p, j)

\* A finished day of a person off shift in the first and in the last
\* rotation and on shift in two rotations between them.
C34_Witness ==
  /\ pc = "done"
  /\ \E p \in Roster :
        /\ properWindowNoPins(p)
        /\ ~onShift(p, 1)
        /\ onShift(p, 2)
        /\ onShift(p, 3)
        /\ ~onShift(p, 5)

(***************************************************************************)
(* C35: every forced assignment, side task and shift exception of the      *)
(* view, which the green effect passes to the engine, names a green slot   *)
(* id of the current roster.                                               *)
(***************************************************************************)
C35_RulesNameRoster ==
  /\ \A k \in DOMAIN forcedAssignments :
        forcedAssignments[k].employeeId \in Range(greenEmployeeIds)
  /\ \A k \in DOMAIN sideTasks : sideTasks[k].employeeId \in Range(greenEmployeeIds)
  /\ \A k \in DOMAIN shiftExceptions :
        shiftExceptions[k].employeeId \in Range(greenEmployeeIds)

(***************************************************************************)
(* C36: the forced-assignment list of the view holds at most one entry per *)
(* (rotation, person) pair.                                                *)
(***************************************************************************)
C36_OnePinPerPair ==
  \A j, k \in DOMAIN forcedAssignments :
     (/\ forcedAssignments[j].rotationId = forcedAssignments[k].rotationId
      /\ forcedAssignments[j].employeeId = forcedAssignments[k].employeeId) => j = k

\* The pin button of a card of an unpinned person was clicked while another
\* person was pinned in the same rotation, after a swap or a drop.
C36_Witness ==
  /\ gesture.op = "toggleForce"
  /\ gesture.count = MaxGestures
  /\ Len(forcedAssignments) = Len(gesture.before.forcedAssignments) + 1
  /\ \E k \in DOMAIN gesture.before.forcedAssignments :
        /\ gesture.before.forcedAssignments[k].rotationId = gesture.args[1]
        /\ gesture.before.forcedAssignments[k].employeeId # gesture.args[3]

(***************************************************************************)
(* The blue generator.                                                     *)
(***************************************************************************)
allBlocks == IF blue.pc = "idle" THEN <<>> ELSE blue.allBlocks

\* The cycle of employee empId that starts at showStart has a block of kind.
hasBlock(empId, showStart, kind) ==
  \E k \in DOMAIN allBlocks : allBlocks[k].id = <<empId, showStart, kind>>

(***************************************************************************)
(* C37: no block starts at or after 17:00, and of every cycle that was     *)
(* started the blocks built are exactly those of Show, Ocean and Floor -1  *)
(* that start before 17:00.                                                *)
(***************************************************************************)
C37_CutAfterLastBlockBeforeCutoff ==
  /\ \A k \in DOMAIN allBlocks : allBlocks[k].startTime < cutoffTime
  /\ \A k \in DOMAIN allBlocks :
        allBlocks[k].station = SHOW =>
          LET empId == allBlocks[k].employeeId
              showStart == allBlocks[k].startTime
          IN /\ hasBlock(empId, showStart, "ocean")
                  <=> showStart + offsetOceanStart < cutoffTime
             /\ hasBlock(empId, showStart, "floor")
                  <=> showStart + offsetFloorStart(blue.config) < cutoffTime

\* Two blocks cover a common stretch of time.
overlap(a, b) ==
  (IF a.startTime >= b.startTime THEN a.startTime ELSE b.startTime)
    < (IF a.endTime <= b.endTime THEN a.endTime ELSE b.endTime)

(***************************************************************************)
(* C38: two blocks of one employee never overlap in time, and the blocks   *)
(* of a cycle are Show for 30 minutes, Ocean from 5 minutes after the end  *)
(* of the show, and Floor -1 from the end of Ocean.                        *)
(***************************************************************************)
C38_BlocksNeverOverlap ==
  /\ \A j, k \in DOMAIN allBlocks :
        (j # k /\ allBlocks[j].employeeId = allBlocks[k].employeeId)
          => ~overlap(allBlocks[j], allBlocks[k])
  /\ \A j, k \in DOMAIN allBlocks :
        (j < k /\ allBlocks[j].employeeId = allBlocks[k].employeeId)
          => allBlocks[j].endTime <= allBlocks[k].startTime

\* A step of the cycle loop that goes on with a next cycle.
nextCycle == blue.pc = "cycle" /\ blue'.pc = "cycle"

(***************************************************************************)
(* C39: every pass of the cycle loop that goes on to a next cycle moves    *)
(* to a strictly later show time.                                          *)
(***************************************************************************)
C39_CycleAdvances ==
  [][nextCycle => blue'.currentCycleStart > blue.currentCycleStart]_vars

====
